---- MODULE Spec2Model ----
(***************************************************************************)
(* decider20: the AI Gateway (src/geminiService.ts, second version, lines  *)
(* 127-276) and the Flow Controller (src/App.tsx, second version, lines    *)
(* 445-840) as one state machine.  The session is the React state of App;  *)
(* a gateway call is a record that lives from the handler that starts it   *)
(* to the continuation that consumes its result.  The upstream model is    *)
(* the environment: at every attempt it answers with a thrown error or a   *)
(* response text.                                                          *)
(*                                                                         *)
(* Strings that the code only tests with includes() are modelled by the    *)
(* set of signatures they contain ("503", "429", ...); a text the code     *)
(* parses is a sequence of tokens (fence markers, white space, a body).    *)
(***************************************************************************)
EXTENDS Integers, Sequences, FiniteSets, TLC

\* ------------------------------------------------------------------ bounds

\* Gateway calls that may be outstanding at once (the guards cap it).
MaxCalls == 2

\* --------------------------------------------------------------- messages

\* An error message: an identity and the signatures its text contains.
Msg(id, sigs) == [id |-> id, sigs |-> sigs]

\* null / undefined where a message is expected.
NULL == Msg("null", {})

includes(msg, sig) == sig \in msg.sigs

\* createAI's error (its text contains "API key" in Korean).
MissingKeyMsg == Msg("API key is not set", {"API-key-word"})

\* generateQuestions: the model returned no text.
BlockedQuestionsMsg == Msg("question generation was blocked", {})

\* analyzeDecision: the model returned no text.
BlockedAnalysisMsg == Msg("analysis result is empty", {})

\* analyzeDecision's wrapped errors (the quota one contains "limit" in Korean).
WrappedQuotaMsg == Msg("API usage exceeded the limit", {"limit-word"})

WrappedOverloadMsg == Msg("server has too many users", {})

\* handleError's user message for quota failures (it contains "limit" too).
QuotaUserMsg == Msg("free quota exceeded", {"limit-word"})

\* handleError's fallbacks, used when the error has an empty message.
FallbackQuestionsMsg == Msg("problem while generating questions", {})

FallbackAnalysisMsg == Msg("problem during final analysis", {})

FallbackRefineMsg == Msg("problem during refinement", {})

FallbackAlternativeMsg == Msg("problem during alternative analysis", {})

\* JSON.parse's SyntaxError.  The engine writes the message: it quotes the
\* position of the fault and a snippet of the text, so it carries whatever
\* signature those digits or that snippet spell.
SyntaxErrorMsg(sigs) == Msg("SyntaxError", sigs)

\* Errors the upstream call may throw (one signature each, the two usual
\* combinations, a plain failure such as a rejected key, an empty message).
UpstreamMsgs ==
  { Msg("503 The model is overloaded", {"503", "overloaded"}),
    Msg("503 Service Unavailable", {"503"}),
    Msg("model overloaded", {"overloaded"}),
    Msg("429 RESOURCE_EXHAUSTED", {"429", "RESOURCE_EXHAUSTED"}),
    Msg("429 Too Many Requests", {"429"}),
    Msg("RESOURCE_EXHAUSTED", {"RESOURCE_EXHAUSTED"}),
    Msg("QUOTA_EXCEEDED", {"QUOTA"}),
    Msg("Quota exceeded", {"Quota"}),
    Msg("400 API key not valid", {}),
    Msg("", {}) }

\* ----------------------------------------------------------------- values

OptionNames == <<"A", "B", "C", "D", "E">>

Question(id, text, nOptions) ==
  [id |-> id, text |-> text, options |-> SubSeq(OptionNames, 1, nOptions)]

JArray(items) == [shape |-> "array", items |-> items]

JObject == [shape |-> "object", items |-> <<>>]

JNull == [shape |-> "null", items |-> <<>>]

JUndefined == [shape |-> "undefined", items |-> <<>>]

\* A parsed analysis; hasAlternatives says whether the object carries an
\* alternatives field at all.
Analysis(rec, score, hasAlts, alts) ==
  [shape |-> "object", items |-> <<>>, finalRecommendation |-> rec,
   score |-> score, hasAlternatives |-> hasAlts, alternatives |-> alts]

\* The bodies a response text may carry, by name.
QuestionBodies == {"Q_FIVE", "Q_DUP", "Q_EMPTY", "Q_OBJECT"}

AnalysisBodies == {"A_GOOD", "A_PLAIN", "A_NULL"}

JsonBodies == QuestionBodies \cup AnalysisBodies

\* Bodies that are not JSON, and the signatures of their SyntaxError.
JunkBodies == {"JUNK", "JUNK_503", "JUNK_429"}

JunkSigs(tok) ==
  CASE tok = "JUNK_503" -> {"503"}
    [] tok = "JUNK_429" -> {"429"}
    [] OTHER -> {}

PayloadOf(tok) ==
  CASE tok = "Q_FIVE" ->
         JArray([n \in 1..5 |-> Question(n, "q", 3)])
    [] tok = "Q_DUP" ->
         JArray(<<Question(7, "q", 2), Question(7, "r", 5)>>)
    [] tok = "Q_EMPTY" -> JArray(<<>>)
    [] tok = "Q_OBJECT" -> JObject
    [] tok = "A_GOOD" -> Analysis("take A", 85, TRUE, <<"B">>)
    [] tok = "A_PLAIN" -> Analysis("take B", 150, FALSE, <<>>)
    [] tok = "A_NULL" -> JNull
    [] OTHER -> JUndefined

WhiteSpace == {"\n", " "}

\* The three backquotes and the word json that open a fenced block.
FenceJson == "<fence-json>"

\* The three backquotes that close a fenced block.
Fence == "<fence>"

\* ---------------------------------------------------------------- results

\* What a promise settles to.
Ok(v) == [ok |-> TRUE, value |-> v, err |-> NULL]

Err(m) == [ok |-> FALSE, value |-> JUndefined, err |-> m]

\* What the upstream call of one attempt does.
Throws(m) == [kind |-> "throw", msg |-> m, text |-> <<>>]

Responds(text) == [kind |-> "text", msg |-> NULL, text |-> text]

\* ------------------------------------------------------------- text, JSON

RECURSIVE TrimStart(_)
TrimStart(s) ==
  IF s # <<>> /\ Head(s) \in WhiteSpace THEN TrimStart(Tail(s)) ELSE s

RECURSIVE TrimEnd(_)
TrimEnd(s) ==
  IF s # <<>> /\ s[Len(s)] \in WhiteSpace
  THEN TrimEnd(SubSeq(s, 1, Len(s) - 1))
  ELSE s

\* String.prototype.trim
trim(s) == TrimEnd(TrimStart(s))

\* JSON.parse: white space around one JSON body, else a SyntaxError.
JSONparse(text) ==
  LET t == trim(text)
      junk == UNION {JunkSigs(t[k]) : k \in 1..Len(t)}
  IN IF Len(t) = 1 /\ t[1] \in JsonBodies
     THEN Ok(PayloadOf(t[1]))
     ELSE Err(SyntaxErrorMsg(junk))

\* analyzeDecision's cleanup: the text without a leading FenceJson, then
\* without a trailing Fence, then trimmed.
cleanJson(text) ==
  LET a == IF text # <<>> /\ Head(text) = FenceJson THEN Tail(text) ELSE text
      b == IF a # <<>> /\ a[Len(a)] = Fence
           THEN SubSeq(a, 1, Len(a) - 1)
           ELSE a
  IN trim(b)

\* ----------------------------------------------------------- the gateway

\* process.env.API_KEY: undefined, the placeholder, blank, or a key.
KeyUndefined == "<undefined>"

Keys == {KeyUndefined, "undefined", "", " ", "AIza-key"}

\* The string as it is.
trimStringKeepsBlanks(k) == k

\* String.prototype.trim on a plain string (a key, a topic, an input).
trimString(k) == IF k = " " THEN "" ELSE k

\* The check without the comparison to the placeholder.
KeyUsableMissesPlaceholder(apiKey) ==
  ~(apiKey = KeyUndefined \/ apiKey = "" \/ trimString(apiKey) = "")

\* createAI's check: the key the client is built from is usable.
KeyUsable(apiKey) ==
  ~(apiKey = KeyUndefined \/ apiKey = ""
    \/ apiKey = "undefined" \/ trimString(apiKey) = "")

\* One attempt more than the default.
maxRetriesPlusOne == 3 + 1

\* callWithRetry's default maxRetries.
maxRetries == 3

\* callWithRetry: isRetryable
isRetryable(error) ==
  \/ includes(error, "503")
  \/ includes(error, "overloaded")
  \/ includes(error, "429")
  \/ includes(error, "RESOURCE_EXHAUSTED")

\* The exponent off by one.
waitTimeDoubled(i) == (2 ^ (i + 1)) * 1000

\* callWithRetry: Math.pow(2, i) * 1000
waitTime(i) == (2 ^ i) * 1000

\* generateQuestions: the function handed to callWithRetry, on one answer
\* of the upstream call.
generateQuestionsFn(up) ==
  IF up.kind = "throw" THEN Err(up.msg)
  ELSE IF up.text = <<>> THEN Err(BlockedQuestionsMsg)
  ELSE JSONparse(up.text)

\* The catch clause with its two messages exchanged.
analyzeWrapExchanged(e) ==
  IF includes(e, "429") \/ includes(e, "QUOTA") THEN WrappedOverloadMsg
  ELSE IF includes(e, "503") \/ includes(e, "overloaded")
  THEN WrappedQuotaMsg
  ELSE e

\* analyzeDecision: the catch clause that wraps the error.
analyzeWrap(e) ==
  IF includes(e, "429") \/ includes(e, "QUOTA") THEN WrappedQuotaMsg
  ELSE IF includes(e, "503") \/ includes(e, "overloaded")
  THEN WrappedOverloadMsg
  ELSE e

\* analyzeDecision: the try block of the function handed to callWithRetry.
analyzeTry(up) ==
  IF up.kind = "throw" THEN Err(up.msg)
  ELSE IF up.text = <<>> THEN Err(BlockedAnalysisMsg)
  ELSE JSONparse(cleanJson(up.text))

\* analyzeDecision: the function handed to callWithRetry.
analyzeDecisionFn(up) ==
  LET inner == analyzeTry(up)
  IN IF inner.ok THEN inner ELSE Err(analyzeWrap(inner.err))

\* An argument that is not passed.
NoArg == "<undefined>"

\* The arguments of a gateway call as the call site passes them.
Args(t, qs, ans, add, alt) ==
  [topic |-> t, questions |-> qs, answers |-> ans,
   additionalInput |-> add, targetAlternative |-> alt]

NoArgs == Args("", JUndefined, <<>>, NoArg, NoArg)

\* The text the transcript puts where answers[q.id] is falsy.
NoAnswerMarker == "<no answer>"

\* The marker at every question.
answerOrOnlyMarker(ans, id) == NoAnswerMarker

\* analyzeDecision: answers[q.id] || marker
answerOr(ans, id) ==
  IF id \in DOMAIN ans /\ ans[id] # "" THEN ans[id] ELSE NoAnswerMarker

\* analyzeDecision: context, the transcript before the join.
context(qs, ans) ==
  [n \in 1..Len(qs.items) |->
     [question |-> qs.items[n].text,
      answer |-> answerOr(ans, qs.items[n].id)]]

\* A part of a prompt.
Block(kind, text, blocks) == [kind |-> kind, text |-> text, blocks |-> blocks]

\* generateQuestions: prompt.
questionsPrompt(args) ==
  <<Block("topic", args.topic, <<>>), Block("instructions", "", <<>>)>>

\* analyzeDecision: prompt.  The function takes topic, questions and
\* answers; further arguments of a call site are not read.
analyzePrompt(args) ==
  <<Block("role", "", <<>>), Block("topic", args.topic, <<>>),
    Block("transcript", "", context(args.questions, args.answers)),
    Block("instructions", "", <<>>)>>

\* The contents of the upstream request of an operation.
Request(op, args) ==
  IF op = "generateQuestions" THEN questionsPrompt(args)
  ELSE analyzePrompt(args)

GatewayFn(op, up) ==
  IF op = "generateQuestions" THEN generateQuestionsFn(up)
  ELSE analyzeDecisionFn(up)


\* The loop waiting after every retryable failure.
shouldRetryAlways(error, i) == isRetryable(error)

\* callWithRetry: the condition under which the loop waits and continues.
shouldRetry(error, i) == isRetryable(error) /\ i < maxRetries - 1

\* What the upstream call may do at one attempt of each operation.
QuestionTexts ==
  { <<>>, <<"Q_FIVE">>, <<"Q_DUP">>, <<"Q_EMPTY">>, <<"Q_OBJECT">>,
    <<"JUNK">>, <<"JUNK_503">>, <<"JUNK_429">> }

\* A payload in a fenced block: with the tag json, without white space,
\* without the tag, with a newline after the block, with a blank before.
FencedTexts ==
  { <<FenceJson, "\n", "A_GOOD", "\n", Fence>>,
    <<FenceJson, "A_GOOD", Fence>>,
    <<Fence, "\n", "A_GOOD", "\n", Fence>>,
    <<FenceJson, "\n", "A_GOOD", "\n", Fence, "\n">>,
    <<" ", FenceJson, "\n", "A_GOOD", "\n", Fence>> }

AnalysisTexts ==
  { <<>>, <<"A_GOOD">>, <<"A_PLAIN">>, <<"A_NULL">>, <<"JUNK">> }
    \cup FencedTexts

UpstreamOutcomes(op) ==
  {Throws(m) : m \in UpstreamMsgs}
    \cup {Responds(t) : t \in IF op = "generateQuestions"
                               THEN QuestionTexts ELSE AnalysisTexts}

\* ------------------------------------------------------------ the session

VARIABLES
  stage, topic, questions, answers, currentIndex, analysis, error,
  additionalInput, isRefining,
  apiKey,      \* the value of process.env.API_KEY; where window.aistudio
               \* is missing it is what the build's define wrote into the
               \* bundle, and nothing changes it
  aistudio,    \* whether window.aistudio exists
  calls,       \* the gateway calls that are outstanding
  done,        \* history: the gateway call that settled in the last step
               \* with the response text that settled it, and whether
               \* that step was resetApp
  missingBefore \* history: the last gateway call failed createAI's check

sessionVars ==
  <<stage, topic, questions, answers, currentIndex, analysis, error,
    additionalInput, isRefining>>

vars == <<sessionVars, apiKey, aistudio, calls, done, missingBefore>>

Session ==
  [stage |-> stage, topic |-> topic, questions |-> questions,
   answers |-> answers, currentIndex |-> currentIndex,
   analysis |-> analysis, error |-> error,
   additionalInput |-> additionalInput, isRefining |-> isRefining]

\* App's initial state, and the state resetApp installs.
InitialSession ==
  [stage |-> "START", topic |-> "", questions |-> JArray(<<>>),
   answers |-> <<>>, currentIndex |-> 0, analysis |-> JNull,
   error |-> NULL, additionalInput |-> "", isRefining |-> FALSE]

Install(s) ==
  /\ stage' = s.stage
  /\ topic' = s.topic
  /\ questions' = s.questions
  /\ answers' = s.answers
  /\ currentIndex' = s.currentIndex
  /\ analysis' = s.analysis
  /\ error' = s.error
  /\ additionalInput' = s.additionalInput
  /\ isRefining' = s.isRefining

\* What the user may type.
Texts == {"", " ", "job"}

NoCall ==
  [op |-> "none", origin |-> "none", key |-> KeyUndefined, ok |-> FALSE,
   value |-> JUndefined, err |-> NULL, attempts |-> 0, waits |-> <<>>,
   lastUp |-> NULL, afterMissing |-> FALSE, args |-> NoArgs,
   request |-> <<>>, reset |-> FALSE, text |-> <<>>]

Init ==
  /\ stage = InitialSession.stage
  /\ topic = InitialSession.topic
  /\ questions = InitialSession.questions
  /\ answers = InitialSession.answers
  /\ currentIndex = InitialSession.currentIndex
  /\ analysis = InitialSession.analysis
  /\ error = InitialSession.error
  /\ additionalInput = InitialSession.additionalInput
  /\ isRefining = InitialSession.isRefining
  /\ apiKey \in Keys
  /\ aistudio \in BOOLEAN
  /\ calls = <<>>
  /\ done = NoCall
  /\ missingBefore = FALSE

\* ------------------------------------------------------- the handlers' code

\* handleError: the session with the error string set.
handleError(s, err, fallback) ==
  LET msg == IF err.id = "" THEN fallback ELSE err
  IN IF includes(msg, "Quota") \/ includes(msg, "429")
        \/ includes(msg, "RESOURCE_EXHAUSTED")
     THEN [s EXCEPT !.error = QuotaUserMsg]
     ELSE [s EXCEPT !.error = msg]

\* The stage left as it is.
startBeginKeepsStage(s) == [s EXCEPT !.error = NULL]

\* startDecisionProcess up to the await.
startBegin(s) ==
  [s EXCEPT !.error = NULL, !.stage = "GENERATING_QUESTIONS"]

\* The catch clause without its setStage.
startContinueKeepsStage(s, res) ==
  IF res.ok
  THEN [s EXCEPT !.questions = res.value, !.stage = "ANSWERING",
                 !.currentIndex = 0]
  ELSE handleError(s, res.err, FallbackQuestionsMsg)

\* startDecisionProcess after the await.
startContinue(s, res) ==
  IF res.ok
  THEN [s EXCEPT !.questions = res.value, !.stage = "ANSWERING",
                 !.currentIndex = 0]
  ELSE [handleError(s, res.err, FallbackQuestionsMsg)
          EXCEPT !.stage = "START"]

\* The stage left as it is.
finishBeginKeepsStage(s) == [s EXCEPT !.error = NULL]

\* finishAnswering up to the await.
finishBegin(s) == [s EXCEPT !.error = NULL, !.stage = "ANALYZING"]

\* The catch clause going back to the questions.
finishContinueReverts(s, res) ==
  IF res.ok
  THEN [s EXCEPT !.analysis = res.value, !.stage = "RESULT"]
  ELSE [handleError(s, res.err, FallbackAnalysisMsg)
          EXCEPT !.stage = "ANSWERING"]

\* finishAnswering after the await.
finishContinue(s, res) ==
  IF res.ok
  THEN [s EXCEPT !.analysis = res.value, !.stage = "RESULT"]
  ELSE handleError(s, res.err, FallbackAnalysisMsg)

\* The stage set as finishAnswering sets it.
refineBeginSetsStage(s) ==
  [s EXCEPT !.isRefining = TRUE, !.error = NULL, !.stage = "ANALYZING"]

\* handleRefineAnalysis and switchToAlternative up to the await.
refineBegin(s) == [s EXCEPT !.isRefining = TRUE, !.error = NULL]

\* The catch clause throwing the answers away.
refineContinueDropsAnswers(s, res) ==
  IF res.ok
  THEN [s EXCEPT !.analysis = res.value, !.additionalInput = "",
                 !.isRefining = FALSE]
  ELSE [handleError(s, res.err, FallbackRefineMsg)
          EXCEPT !.isRefining = FALSE, !.answers = <<>>]

\* handleRefineAnalysis after the await.
refineContinue(s, res) ==
  IF res.ok
  THEN [s EXCEPT !.analysis = res.value, !.additionalInput = "",
                 !.isRefining = FALSE]
  ELSE [handleError(s, res.err, FallbackRefineMsg)
          EXCEPT !.isRefining = FALSE]

\* The catch clause dropping the analysis on display.
alternativeContinueDropsAnalysis(s, res) ==
  IF res.ok
  THEN [s EXCEPT !.analysis = res.value, !.isRefining = FALSE]
  ELSE [handleError(s, res.err, FallbackAlternativeMsg)
          EXCEPT !.isRefining = FALSE, !.analysis = JNull]

\* switchToAlternative after the await.
alternativeContinue(s, res) ==
  IF res.ok
  THEN [s EXCEPT !.analysis = res.value, !.isRefining = FALSE]
  ELSE [handleError(s, res.err, FallbackAlternativeMsg)
          EXCEPT !.isRefining = FALSE]

\* The continuation of the handler that started a call.
Continue(origin, s, res) ==
  CASE origin = "start" -> startContinue(s, res)
    [] origin = "finish" -> finishContinue(s, res)
    [] origin = "refine" -> refineContinue(s, res)
    [] OTHER -> alternativeContinue(s, res)

\* ------------------------------------------------------- questions, answers

IsArray(v) == v.shape = "array"

\* questions.length > 0 (undefined > 0 is false).
HasQuestions == IsArray(questions) /\ Len(questions.items) > 0

CurrentQuestion == questions.items[currentIndex + 1]

\* The next button never disabled.
AnsweredAlways(id) == TRUE

\* answers[id] is truthy.
Answered(id) == id \in DOMAIN answers /\ answers[id] # ""

\* ------------------------------------------------------- the gateway calls

\* A client kept from the call before, failed check included.
staleKey == IF missingBefore THEN KeyUndefined ELSE apiKey

\* createAI: const apiKey = process.env.API_KEY
resolveKey == apiKey

NewCall(op, origin, args) ==
  [op |-> op, origin |-> origin, key |-> apiKey, i |-> 0, pc |-> "fn",
   attempts |-> 1, waits |-> <<>>, lastError |-> NULL, lastUp |-> NULL,
   afterMissing |-> missingBefore, args |-> args,
   request |-> Request(op, args)]

Settled(c, res, up, text) ==
  [op |-> c.op, origin |-> c.origin, key |-> c.key, ok |-> res.ok,
   value |-> res.value, err |-> res.err, attempts |-> c.attempts,
   waits |-> c.waits, lastUp |-> up, afterMissing |-> c.afterMissing,
   args |-> c.args, request |-> c.request, reset |-> FALSE,
   text |-> text]

\* generateQuestions / analyzeDecision up to callWithRetry: createAI, then
\* the first attempt is under way; a createAI that throws rejects at once
\* and the handler's catch runs.  s is the session after the handler's
\* code before the await, args the arguments of the call site.
Invoke(op, origin, s, args) ==
  IF KeyUsable(resolveKey)
  THEN /\ Len(calls) < MaxCalls
       /\ calls' = Append(calls, NewCall(op, origin, args))
       /\ Install(s)
       /\ done' = NoCall
       /\ missingBefore' = FALSE
  ELSE /\ Install(Continue(origin, s, Err(MissingKeyMsg)))
       /\ done' = [NoCall EXCEPT !.op = op, !.origin = origin,
                                 !.key = apiKey, !.err = MissingKeyMsg,
                                 !.afterMissing = missingBefore,
                                 !.args = args]
       /\ missingBefore' = TRUE
       /\ UNCHANGED calls

\* The call kept in the loop.
RemoveNothing(seq, k) == seq

Remove(seq, k) == SubSeq(seq, 1, k - 1) \o SubSeq(seq, k + 1, Len(seq))

\* The error of an attempt as the upstream call or the parse raised it,
\* before analyzeDecision's catch wraps it.
RaisedBy(op, up) ==
  IF op = "generateQuestions" THEN generateQuestionsFn(up).err
  ELSE analyzeTry(up).err

\* callWithRetry returns or throws: the handler's continuation runs.
Settle(k, res, up, text) ==
  /\ calls' = Remove(calls, k)
  /\ Install(Continue(calls[k].origin, Session, res))
  /\ done' = Settled(calls[k], res, up, text)

\* callWithRetry: the upstream call of the attempt under way answers.
UpstreamAnswers(k, up) ==
  LET c == calls[k]
      res == GatewayFn(c.op, up)
  IN /\ c.pc = "fn"
     /\ IF res.ok THEN Settle(k, res, NULL, up.text)
        ELSE IF shouldRetry(res.err, c.i)
        THEN /\ calls' = [calls EXCEPT ![k] =
                            [c EXCEPT !.pc = "sleep",
                                      !.waits = Append(@, waitTime(c.i)),
                                      !.lastError = res.err,
                                      !.lastUp = RaisedBy(c.op, up)]]
             /\ done' = NoCall
             /\ UNCHANGED sessionVars
        ELSE Settle(k, res, RaisedBy(c.op, up), up.text)
     /\ UNCHANGED <<apiKey, aistudio, missingBefore>>

\* callWithRetry: the backoff delay is over; the loop goes on, or ends
\* and throws lastError.
BackoffElapsed(k) ==
  LET c == calls[k]
  IN /\ c.pc = "sleep"
     /\ IF c.i + 1 < maxRetries
        THEN /\ calls' = [calls EXCEPT ![k] =
                            [c EXCEPT !.pc = "fn", !.i = @ + 1,
                                      !.attempts = @ + 1]]
             /\ done' = NoCall
             /\ UNCHANGED sessionVars
        ELSE Settle(k, Err(c.lastError), c.lastUp, <<>>)
     /\ UNCHANGED <<apiKey, aistudio, missingBefore>>

\* ---------------------------------------------------------- user actions

\* The textarea rendered in every stage.
SetTopicInAnyStage(t) ==
  /\ topic' = t
  /\ UNCHANGED <<stage, questions, answers, currentIndex, analysis, error,
                 additionalInput, isRefining, apiKey, aistudio, calls,
                 missingBefore>>
  /\ done' = NoCall

\* The topic textarea (rendered in START).
SetTopic(t) ==
  /\ stage = "START"
  /\ topic' = t
  /\ UNCHANGED <<stage, questions, answers, currentIndex, analysis, error,
                 additionalInput, isRefining, apiKey, aistudio, calls,
                 missingBefore>>
  /\ done' = NoCall

\* The start button: startDecisionProcess.
StartDecisionProcess ==
  /\ stage = "START"
  /\ trimString(topic) # ""
  /\ Invoke("generateQuestions", "start", startBegin(Session),
            Args(topic, JUndefined, <<>>, NoArg, NoArg))
  /\ UNCHANGED <<apiKey, aistudio>>

\* The map replaced by the one entry.
HandleAnswerReplacesMap(option) ==
  /\ stage = "ANSWERING" /\ HasQuestions
  /\ answers' = (CurrentQuestion.id :> option)
  /\ UNCHANGED <<stage, topic, questions, currentIndex, analysis, error,
                 additionalInput, isRefining, apiKey, aistudio, calls,
                 missingBefore>>
  /\ done' = NoCall

\* An option button: handleAnswer.
HandleAnswer(option) ==
  /\ stage = "ANSWERING" /\ HasQuestions
  /\ answers' = (CurrentQuestion.id :> option) @@ answers
  /\ UNCHANGED <<stage, topic, questions, currentIndex, analysis, error,
                 additionalInput, isRefining, apiKey, aistudio, calls,
                 missingBefore>>
  /\ done' = NoCall

\* The next button: handleNext, which ends in finishAnswering.
HandleNext ==
  /\ stage = "ANSWERING" /\ HasQuestions
  /\ Answered(CurrentQuestion.id)
  /\ IF currentIndex < Len(questions.items) - 1
     THEN /\ currentIndex' = currentIndex + 1
          /\ done' = NoCall
          /\ UNCHANGED <<stage, topic, questions, answers, analysis, error,
                         additionalInput, isRefining, calls, missingBefore>>
     ELSE Invoke("analyzeDecision", "finish", finishBegin(Session),
                 Args(topic, questions, answers, NoArg, NoArg))
  /\ UNCHANGED <<apiKey, aistudio>>

\* The previous button: handlePrev.
HandlePrev ==
  /\ stage = "ANSWERING" /\ HasQuestions
  /\ currentIndex # 0
  /\ currentIndex > 0
  /\ currentIndex' = currentIndex - 1
  /\ done' = NoCall
  /\ UNCHANGED <<stage, topic, questions, answers, analysis, error,
                 additionalInput, isRefining, apiKey, aistudio, calls,
                 missingBefore>>

\* The result view is rendered.
ResultRendered == stage = "RESULT" /\ analysis.shape # "null"

\* The result view is rendered and takes pointer events (while isRefining
\* it has the class pointer-events-none).
ResultView == ResultRendered /\ ~isRefining

\* The refinement textarea.
SetAdditionalInput(t) ==
  /\ ResultView
  /\ additionalInput' = t
  /\ done' = NoCall
  /\ UNCHANGED <<stage, topic, questions, answers, currentIndex, analysis,
                 error, isRefining, apiKey, aistudio, calls, missingBefore>>

\* The refine button (disabled while isRefining): handleRefineAnalysis.
HandleRefineAnalysis ==
  /\ ResultView
  /\ ~isRefining
  /\ trimString(additionalInput) # ""
  /\ Invoke("analyzeDecision", "refine", refineBegin(Session),
            Args(topic, questions, answers, additionalInput, NoArg))
  /\ UNCHANGED <<apiKey, aistudio>>

\* An alternative's button: switchToAlternative.
SwitchToAlternative(k) ==
  /\ ResultView
  /\ analysis.hasAlternatives
  /\ k \in 1..Len(analysis.alternatives)
  /\ Invoke("analyzeDecision", "alt", refineBegin(Session),
            Args(topic, questions, answers, NoArg, analysis.alternatives[k]))
  /\ UNCHANGED <<apiKey, aistudio>>

\* The reset that leaves the error.
resetAppKeepsError(s) ==
  [InitialSession EXCEPT !.isRefining = s.isRefining, !.error = s.error]

\* resetApp: eight setters; isRefining is not among them.
resetApp(s) == [InitialSession EXCEPT !.isRefining = s.isRefining]

\* The reset button of the result view: resetApp.
ResetApp ==
  /\ ResultView
  /\ Install(resetApp(Session))
  /\ done' = [NoCall EXCEPT !.reset = TRUE]
  /\ UNCHANGED <<apiKey, aistudio, calls, missingBefore>>

\* The x of the error banner.
DismissError ==
  /\ error # NULL
  /\ error' = NULL
  /\ done' = NoCall
  /\ UNCHANGED <<stage, topic, questions, answers, currentIndex, analysis,
                 additionalInput, isRefining, apiKey, aistudio, calls,
                 missingBefore>>

\* The key buttons: handleOpenKeySelector.  The selector leaves the key as
\* it is, supplies one or clears it.
HandleOpenKeySelector(k) ==
  /\ aistudio
  /\ apiKey' = k
  /\ error' = NULL
  /\ done' = NoCall
  /\ UNCHANGED <<stage, topic, questions, answers, currentIndex, analysis,
                 additionalInput, isRefining, aistudio, calls, missingBefore>>

\* Any option button of the question on display.
AnswerQuestion ==
  \E o \in 1..Len(OptionNames) :
    /\ stage = "ANSWERING" /\ HasQuestions
    /\ o <= Len(CurrentQuestion.options)
    /\ HandleAnswer(CurrentQuestion.options[o])

\* The upstream model answers the attempt of a call.
UpstreamStep ==
  \E k \in 1..MaxCalls :
    /\ k <= Len(calls)
    /\ \E up \in UpstreamOutcomes(calls[k].op) : UpstreamAnswers(k, up)

\* The timer of a backoff delay fires.
BackoffStep == \E k \in 1..MaxCalls : k <= Len(calls) /\ BackoffElapsed(k)

Next ==
  \/ \E t \in Texts : SetTopic(t)
  \/ StartDecisionProcess
  \/ AnswerQuestion
  \/ HandleNext
  \/ HandlePrev
  \/ \E t \in Texts : SetAdditionalInput(t)
  \/ HandleRefineAnalysis
  \/ \E k \in 1..1 : SwitchToAlternative(k)
  \/ ResetApp
  \/ DismissError
  \/ \E k \in {apiKey, "AIza-key", KeyUndefined} : HandleOpenKeySelector(k)
  \/ UpstreamStep
  \/ BackoffStep

Spec == Init /\ [][Next]_vars

\* ------------------------------------------------- the keyboard at work
\*
\* While isRefining the result view has the class pointer-events-none.  It
\* keeps the pointer from the controls of the view, not the keyboard: a
\* button that has the focus (the one just clicked, or one reached with
\* Tab) is activated by Enter or Space unless it is disabled.  The refine
\* button is disabled while isRefining; the buttons of the alternatives
\* and the reset button are not.  Spec is the session under the pointer;
\* KeyboardSpec adds the keyboard, with a key that is set and a smaller
\* choice of upstream answers.

\* An alternative's button activated from the keyboard while isRefining.
KeyboardSwitchToAlternative(k) ==
  /\ ResultRendered /\ isRefining
  /\ analysis.hasAlternatives
  /\ k \in 1..Len(analysis.alternatives)
  /\ Invoke("analyzeDecision", "alt", refineBegin(Session),
            Args(topic, questions, answers, NoArg, analysis.alternatives[k]))
  /\ UNCHANGED <<apiKey, aistudio>>

\* The reset button activated from the keyboard while isRefining.
KeyboardResetApp ==
  /\ ResultRendered /\ isRefining
  /\ Install(resetApp(Session))
  /\ done' = [NoCall EXCEPT !.reset = TRUE]
  /\ UNCHANGED <<apiKey, aistudio, calls, missingBefore>>

\* What the upstream call may do at one attempt, in KeyboardSpec.
KeyboardOutcomes(op) ==
  IF op = "generateQuestions"
  THEN {Responds(<<"Q_DUP">>), Throws(Msg("503 Service Unavailable", {"503"}))}
  ELSE {Responds(<<"A_GOOD">>), Responds(<<"A_PLAIN">>),
        Throws(Msg("400 API key not valid", {}))}

KeyboardUpstreamStep ==
  \E k \in 1..MaxCalls :
    /\ k <= Len(calls)
    /\ \E up \in KeyboardOutcomes(calls[k].op) : UpstreamAnswers(k, up)

KeyboardInit ==
  /\ stage = "START" /\ topic = "" /\ questions = JArray(<<>>)
  /\ answers = <<>> /\ currentIndex = 0 /\ analysis = JNull
  /\ error = NULL /\ additionalInput = "" /\ isRefining = FALSE
  /\ apiKey = "AIza-key"
  /\ aistudio = FALSE
  /\ calls = <<>>
  /\ done = NoCall
  /\ missingBefore = FALSE

KeyboardNext ==
  \/ \E t \in Texts : SetTopic(t)
  \/ StartDecisionProcess
  \/ AnswerQuestion
  \/ HandleNext
  \/ HandlePrev
  \/ \E t \in Texts : SetAdditionalInput(t)
  \/ HandleRefineAnalysis
  \/ \E k \in 1..1 : SwitchToAlternative(k)
  \/ ResetApp
  \/ DismissError
  \/ \E k \in 1..1 : KeyboardSwitchToAlternative(k)
  \/ KeyboardResetApp
  \/ KeyboardUpstreamStep
  \/ BackoffStep

KeyboardSpec == KeyboardInit /\ [][KeyboardNext]_vars

\* ------------------------------------------------- the calls to their end
\*
\* The session from the topic to the result with a key that is set, every
\* upstream attempt answered in the end (generateContent settles its
\* promise) and every backoff timer fired in the end (setTimeout calls
\* back).

RetryNext ==
  \/ \E t \in Texts : SetTopic(t)
  \/ StartDecisionProcess
  \/ AnswerQuestion
  \/ HandleNext
  \/ HandlePrev
  \/ DismissError
  \/ UpstreamStep
  \/ BackoffStep

RetrySpec ==
  /\ KeyboardInit /\ [][RetryNext]_vars
  /\ WF_vars(UpstreamStep) /\ WF_vars(BackoffStep)

\* --------------------------------------------- analyzeDecision by itself
\*
\* analyzeDecision called with any question list and any answer map, as a
\* caller other than App may call it.

TranscriptQuestions ==
  { JArray(<<>>), PayloadOf("Q_DUP"),
    JArray(<<Question(1, "q", 3), Question(2, "r", 3), Question(3, "s", 3)>>),
    JArray(<<Question(2, "r", 3), Question(1, "q", 3)>>) }

\* Every map from some of the ids to an option or the empty string.
TranscriptAnswers ==
  UNION {[ids -> {"", "A", "B"}] : ids \in SUBSET {1, 2, 3, 7}}

TranscriptInit ==
  /\ stage = "ANSWERING" /\ topic = "job"
  /\ questions \in TranscriptQuestions
  /\ answers \in TranscriptAnswers
  /\ currentIndex = 0 /\ analysis = JNull
  /\ error = NULL /\ additionalInput = "" /\ isRefining = FALSE
  /\ apiKey = "AIza-key"
  /\ aistudio = FALSE
  /\ calls = <<>>
  /\ done = NoCall
  /\ missingBefore = FALSE

\* analyzeDecision(topic, questions, answers) up to its first attempt.
AnalyzeDirect ==
  /\ calls = <<>>
  /\ KeyUsable(resolveKey)
  /\ calls' = <<NewCall("analyzeDecision", "direct",
                        Args(topic, questions, answers, NoArg, NoArg))>>
  /\ UNCHANGED <<sessionVars, apiKey, aistudio, done, missingBefore>>

TranscriptNext == AnalyzeDirect

TranscriptSpec == TranscriptInit /\ [][TranscriptNext]_vars

\* ================================================================ claims

\* The signatures of a transient upstream failure: overload or quota.
TransientSig(m) ==
  m.sigs \cap {"503", "overloaded", "429", "RESOURCE_EXHAUSTED"} # {}

\* A credential that is present, not the placeholder and not blank.
Credential(k) == k \notin {KeyUndefined, "undefined", "", " "}

\* The kind of an error, by its signatures or its wrapped text.
Kind(m) ==
  IF m.sigs \cap {"503", "overloaded"} # {} \/ m = WrappedOverloadMsg
  THEN "overload"
  ELSE IF m.sigs \cap {"429", "RESOURCE_EXHAUSTED", "QUOTA", "Quota"} # {}
          \/ m = WrappedQuotaMsg
  THEN "quota"
  ELSE "other"

\* C1: callWithRetry makes at most 3 attempts: no call is ever at a 4th
\* attempt or waits after its 3rd, and generateQuestions surfaces a
\* transient failure only after exactly 3 attempts.
C1_AtMostThreeAttempts ==
  /\ \A k \in 1..Len(calls) :
       /\ calls[k].attempts <= 3
       /\ calls[k].pc = "sleep" => calls[k].attempts < 3
  /\ done.attempts <= 3
  /\ (done.op = "generateQuestions" /\ ~done.ok /\ TransientSig(done.err))
       => done.attempts = 3

\* C1 witness: generateQuestions gave up after three overload failures.
C1_Witness ==
  /\ done.op = "generateQuestions" /\ ~done.ok
  /\ includes(done.err, "503")
  /\ done.attempts = 3

\* C2 (as claimed): analyzeDecision surfaces an overload or quota failure
\* of the upstream call only after 3 attempts.
C2_AnalyzeRetriesTransient ==
  (done.op = "analyzeDecision" /\ ~done.ok /\ TransientSig(done.lastUp))
    => done.attempts = 3

\* The failures the claim calls non-retryable.
NonRetryableFailure(m) ==
  m \in {BlockedQuestionsMsg, BlockedAnalysisMsg, MissingKeyMsg}
    \/ m.id = "SyntaxError"

\* C3 (as claimed): a blocked output, a malformed response or a missing
\* credential is rethrown at once: no backoff follows it, at any attempt
\* index, and as the only failure it costs at most one attempt.
C3_NonRetryableRethrownAtOnce ==
  /\ \A k \in 1..Len(calls) :
       calls[k].pc = "sleep" => ~NonRetryableFailure(calls[k].lastUp)
  /\ (done.op # "none" /\ ~done.ok /\ done.waits = <<>>
        /\ (NonRetryableFailure(done.lastUp) \/ done.err = MissingKeyMsg))
       => done.attempts <= 1

C5_ExhaustedErrorKept ==
  (done.op # "none" /\ ~done.ok /\ done.attempts = 3)
    => /\ Kind(done.err) = Kind(done.lastUp)
       /\ done.op = "generateQuestions" => done.err = done.lastUp

\* C5 witness: analyzeDecision's third attempt failed with a 429.
C5_Witness ==
  /\ done.op = "analyzeDecision" /\ ~done.ok /\ done.attempts = 3
  /\ includes(done.lastUp, "429")

\* C6: with no usable credential a gateway call fails with createAI's error
\* before any upstream attempt, and no call under way was started without
\* a credential.
C6_MissingCredentialFailsFast ==
  /\ \A k \in 1..Len(calls) : Credential(calls[k].key)
  /\ (done.op # "none" /\ ~Credential(done.key))
       => /\ ~done.ok /\ done.err = MissingKeyMsg
          /\ done.attempts = 0 /\ done.waits = <<>>

\* C6 witness: analyzeDecision was called with the placeholder key gone
\* missing.
C6_Witness ==
  /\ done.op = "analyzeDecision" /\ ~Credential(done.key)
  /\ done.err = MissingKeyMsg /\ done.attempts = 0

\* C7: the credential is read at every call: a call made while a
\* credential is configured never fails createAI's check, whatever the
\* call before it met.
C7_CredentialResolvedPerCall ==
  (done.op # "none" /\ Credential(done.key)) => done.err # MissingKeyMsg

\* C7 witness: a call passed the check right after one that failed it.
C7_Witness ==
  \E k \in 1..Len(calls) :
    calls[k].afterMissing /\ calls[k].op = "generateQuestions"

\* C8 (as claimed): the questions a successful generateQuestions returns
\* carry the ids 1..n in array order.
C8_IdsSequential ==
  (done.op = "generateQuestions" /\ done.ok /\ IsArray(done.value))
    => \A n \in 1..Len(done.value.items) : done.value.items[n].id = n

\* C9 (as claimed): in ANSWERING the session holds 5 to 20 questions, each
\* with 3 or 4 options.
C9_QuestionCountAndOptions ==
  stage = "ANSWERING"
    => /\ IsArray(questions)
       /\ Len(questions.items) \in 5..20
       /\ \A n \in 1..Len(questions.items) :
            Len(questions.items[n].options) \in 3..4

\* C10 (as claimed): generateQuestions returns a value only when the text
\* is an array of question objects.
C10_MalformedRejected ==
  (done.op = "generateQuestions" /\ done.ok) => IsArray(done.value)

\* C11 (as claimed): what a successful analyzeDecision returns is an object
\* whose score is an integer in 1..100 and that has an alternatives list.
C11_ScoreAndAlternatives ==
  (done.op = "analyzeDecision" /\ done.ok)
    => /\ done.value.shape = "object"
       /\ done.value.score \in 1..100
       /\ done.value.hasAlternatives

\* The step is a gateway call that failed createAI's check at once.
FailedAtOnce(op, origin) ==
  /\ done'.op = op /\ done'.origin = origin
  /\ done'.attempts = 0 /\ done'.err = MissingKeyMsg
  /\ calls' = calls

\* The step starts exactly one gateway call, the upstream attempt under way.
IssuesOne(op, origin) ==
  /\ Len(calls') = Len(calls) + 1
  /\ SubSeq(calls', 1, Len(calls)) = calls
  /\ calls'[Len(calls')].op = op
  /\ calls'[Len(calls')].origin = origin
  /\ calls'[Len(calls')].attempts = 1

\* C12: submitting a non-blank topic in START issues one generateQuestions
\* call and the stage becomes GENERATING_QUESTIONS (a call that fails
\* createAI's check has failed by the end of the step); the stage leaves
\* START in no other way; when the call succeeds the stage goes from
\* GENERATING_QUESTIONS to ANSWERING, questions is the value returned and
\* currentIndex is 0.
C12_SubmitThenAnswering ==
  [][/\ StartDecisionProcess
        => \/ /\ stage' = "GENERATING_QUESTIONS"
              /\ IssuesOne("generateQuestions", "start")
              /\ UNCHANGED <<topic, questions, answers, currentIndex>>
           \/ FailedAtOnce("generateQuestions", "start")
     /\ (stage = "START" /\ stage' # "START")
        => /\ trimString(topic) # ""
           /\ stage' = "GENERATING_QUESTIONS"
           /\ IssuesOne("generateQuestions", "start")
     /\ (done'.origin = "start" /\ done'.ok)
        => /\ stage = "GENERATING_QUESTIONS"
           /\ stage' = "ANSWERING"
           /\ questions' = done'.value
           /\ currentIndex' = 0]_vars

\* C12 witness: the call of a submitted topic returned five questions and
\* the first of them is on display.
C12_Witness ==
  /\ done.origin = "start" /\ done.ok
  /\ stage = "ANSWERING" /\ topic = "job"
  /\ questions = done.value /\ IsArray(questions)
  /\ Len(questions.items) = 5 /\ currentIndex = 0

\* C13: when the generateQuestions call fails the stage is START again, an
\* error is attached, and questions and answers are empty.
C13_GenerationFailureToStart ==
  (done.origin = "start" /\ ~done.ok)
    => /\ stage = "START"
       /\ error # NULL /\ error.id # ""
       /\ questions = JArray(<<>>)
       /\ answers = <<>>

\* C13 witness: generateQuestions failed upstream, at its first attempt,
\* and the session is in START with the error.
C13_Witness ==
  /\ done.origin = "start" /\ ~done.ok /\ done.attempts = 1
  /\ stage = "START" /\ error # NULL

\* C14: when the analyzeDecision call started by finishAnswering fails the
\* stage is ANALYZING, neither ANSWERING nor START, an error is attached,
\* and topic, questions, answers and currentIndex are what they were.
C14_AnalysisFailureKeepsState ==
  [][(done'.origin = "finish" /\ ~done'.ok)
       => /\ stage' = "ANALYZING"
          /\ error' # NULL /\ error'.id # ""
          /\ UNCHANGED <<topic, questions, answers, currentIndex>>]_vars

\* C14 witness: the analysis of five answers failed upstream and the
\* session is in ANALYZING with the error.
C14_Witness ==
  /\ done.origin = "finish" /\ ~done.ok /\ done.attempts >= 1
  /\ stage = "ANALYZING" /\ error # NULL
  /\ DOMAIN answers = 1..5 /\ currentIndex = 4

\* C15 (as claimed): in ANALYZING with an error attached and a usable key,
\* the user has an action that clears the error and calls analyzeDecision
\* again with the session's topic, questions and answers.
C15_RetryAvailable ==
  (stage = "ANALYZING" /\ error # NULL /\ calls = <<>>
     /\ KeyUsable(apiKey))
    => ENABLED (/\ Next
                /\ error' = NULL
                /\ IssuesOne("analyzeDecision", "finish")
                /\ UNCHANGED <<topic, questions, answers>>)

\* C16: but for a reset no step removes an entry of the answer map, be it
\* a gateway success or failure, and only the user's answer changes it.
C16_AnswersOnlyGrow ==
  [][\/ ResetApp \/ KeyboardResetApp
     \/ /\ DOMAIN answers \subseteq DOMAIN answers'
        /\ answers' # answers => AnswerQuestion]_vars

\* C16 witness: a refinement failed and the five answers are in the map.
C16_Witness ==
  /\ done.origin = "refine" /\ ~done.ok
  /\ stage = "RESULT" /\ DOMAIN answers = 1..5

\* C17 (as claimed): in ANSWERING, 0 <= currentIndex <= questions.length - 1,
\* whatever the gateway returned.
C17_IndexInRange ==
  stage = "ANSWERING"
    => /\ IsArray(questions)
       /\ 0 <= currentIndex
       /\ currentIndex <= Len(questions.items) - 1

\* The answer map holds a non-empty answer for the id.
HasAnswer(id) == id \in DOMAIN answers /\ answers[id] # ""

\* C18: a step of ANSWERING that moves forward, to the next question or to
\* the analysis, is taken only with an answer for the id of the question
\* on display; hence in ANALYZING, and after it, every question's id has
\* an answer.
C18_ForwardOnlyWhenAnswered ==
  /\ [][(stage = "ANSWERING"
           /\ (currentIndex' > currentIndex \/ stage' # "ANSWERING"))
          => HasAnswer(CurrentQuestion.id)]_vars
  /\ [](stage \in {"ANALYZING", "RESULT"}
          => \A n \in 1..Len(questions.items) :
               HasAnswer(questions.items[n].id))

\* C18 witness: the analysis of five questions is under way, each of them
\* answered.
C18_Witness ==
  /\ stage = "ANALYZING" /\ Len(calls) = 1
  /\ Len(questions.items) = 5
  /\ \A n \in 1..5 : HasAnswer(questions.items[n].id)

\* C19: next on a question that is not the last adds 1 to currentIndex,
\* stays in ANSWERING and calls no gateway operation; next on the last
\* question leaves currentIndex, sets ANALYZING and calls analyzeDecision
\* once (a call that fails createAI's check has failed by the end of the
\* step).
C19_NextStep ==
  [][HandleNext
       => IF currentIndex # Len(questions.items) - 1
          THEN /\ currentIndex' = currentIndex + 1
               /\ stage' = "ANSWERING"
               /\ calls' = calls /\ done' = NoCall
          ELSE /\ currentIndex' = currentIndex
               /\ stage' = "ANALYZING"
               /\ \/ IssuesOne("analyzeDecision", "finish")
                  \/ FailedAtOnce("analyzeDecision", "finish")]_vars

\* C19 witness: next on the second and last question started the analysis.
C19_Witness ==
  /\ stage = "ANALYZING" /\ error = NULL
  /\ Len(calls) = 1 /\ calls[1].origin = "finish"
  /\ calls[1].attempts = 1 /\ calls[1].pc = "fn"
  /\ Len(questions.items) = 2 /\ currentIndex = 1

C21_ResetWipesSession ==
  done.reset
    => /\ stage = "START" /\ topic = ""
       /\ questions = JArray(<<>>) /\ answers = <<>>
       /\ currentIndex = 0 /\ analysis = JNull
       /\ error = NULL /\ additionalInput = ""

\* C21 witness: the last step was a reset and the session is the initial
\* session.
C21_Witness == done.reset /\ Session = InitialSession /\ calls = <<>>

\* C22 (as claimed): in every stage but START the user has an action that
\* resets the session and reaches START.
C22_ResetFromAnyStage ==
  stage # "START"
    => ENABLED (/\ Next
                /\ stage' = "START" /\ topic' = ""
                /\ questions' = JArray(<<>>) /\ answers' = <<>>)

\* C23: when the analyzeDecision call of a refinement or of an alternative
\* fails, the stage stays what it is (RESULT), the analysis held is kept
\* and an error is attached.
C23_RefineFailureKeepsAnalysis ==
  [][(done'.origin \in {"refine", "alt"} /\ ~done'.ok)
       => /\ UNCHANGED <<stage, analysis>>
          /\ error' # NULL /\ error'.id # ""]_vars

\* C23 witness: the call of an alternative failed upstream; the result
\* view still shows the analysis it showed.
C23_Witness ==
  /\ done.origin = "alt" /\ ~done.ok /\ done.attempts >= 1
  /\ stage = "RESULT" /\ analysis = PayloadOf("A_GOOD")
  /\ error # NULL /\ ~isRefining

\* C24: a refinement and the choice of an alternative, from the click to
\* the end of the call, success or failure, leave stage, topic, questions,
\* answers and currentIndex; on success the analysis is the new result.
C24_RefineFrame ==
  [][/\ (HandleRefineAnalysis \/ \E k \in 1..1 : SwitchToAlternative(k))
        => UNCHANGED <<stage, topic, questions, answers, currentIndex>>
     /\ done'.origin \in {"refine", "alt"}
        => /\ UNCHANGED <<stage, topic, questions, answers, currentIndex>>
           /\ done'.ok => analysis' = done'.value]_vars

\* C24 witness: a refinement returned another analysis than the one on
\* display, and it is the one on display now.
C24_Witness ==
  /\ done.origin = "refine" /\ done.ok
  /\ stage = "RESULT" /\ analysis = done.value
  /\ analysis = PayloadOf("A_PLAIN") /\ answers # <<>>

\* C25 (as claimed): the request of an analyzeDecision call that was given
\* an additional input or an alternative's title contains that text, and
\* so is not the request built from topic, questions and answers alone.
C25_RefinementInRequest ==
  \A k \in 1..Len(calls) :
    \A given \in {calls[k].args.additionalInput,
                  calls[k].args.targetAlternative} \ {NoArg} :
      /\ \E n \in 1..Len(calls[k].request) : calls[k].request[n].text = given
      /\ calls[k].request
           # analyzePrompt(Args(calls[k].args.topic, calls[k].args.questions,
                                calls[k].args.answers, NoArg, NoArg))

\* C26 (as claimed): at most one gateway call is outstanding.
C26_OneCallOutstanding == Len(calls) <= 1

\* C27 (as claimed): the result of a refinement or alternative call that
\* arrives in START, that is after a reset, changes no field of the
\* session.
C27_StaleResultIgnored ==
  [][(stage = "START" /\ done'.origin \in {"refine", "alt"}
        /\ done'.attempts >= 1)
       => UNCHANGED <<stage, topic, questions, answers, currentIndex,
                      analysis, error, additionalInput>>]_vars

\* C28: outside START no step changes the topic, but for a reset.
C28_TopicImmutable ==
  [][(stage # "START" /\ topic' # topic)
       => (ResetApp \/ KeyboardResetApp)]_vars

\* C28 witness: the analysis of an alternative arrived and the topic is
\* the one submitted.
C28_Witness ==
  /\ done.origin = "alt" /\ done.ok
  /\ stage = "RESULT" /\ topic = "job"
  /\ done.args.topic = topic

\* C29 (as claimed): the error shown for a gateway call that the upstream
\* call failed is the overload message when the failure has an overload
\* signature, a quota message when it has a quota signature, and else the
\* failure's own message (the fallback for an empty one), for both
\* operations.  A failure that spells QUOTA in capitals counts as either.
C29_ThreeCategories ==
  (done.op # "none" /\ ~done.ok /\ done.lastUp \in UpstreamMsgs)
    => IF done.lastUp.sigs \cap {"503", "overloaded"} # {}
       THEN error = WrappedOverloadMsg
       ELSE IF done.lastUp.sigs \cap {"429", "Quota", "RESOURCE_EXHAUSTED"}
                 # {}
       THEN error \in {QuotaUserMsg, WrappedQuotaMsg}
       ELSE IF includes(done.lastUp, "QUOTA")
       THEN error \in {WrappedQuotaMsg, done.lastUp}
       ELSE error.id # "" /\ (done.lastUp.id # "" => error = done.lastUp)

\* The transcript in the request of a call.
TranscriptOf(c) == c.request[3].blocks

IsFenced(text, body) ==
  LET t == trim(text)
  IN /\ Len(t) >= 3
     /\ t[1] \in {Fence, FenceJson}
     /\ t[Len(t)] = Fence
     /\ trim(SubSeq(t, 2, Len(t) - 1)) = <<body>>

\* C31 (as claimed): analyzeDecision returns, for a response that is a
\* payload in a fenced block, what it returns for the bare payload.
C31_FenceStripped ==
  \A body \in AnalysisBodies :
    (done.op = "analyzeDecision" /\ IsFenced(done.text, body))
      => /\ done.ok
         /\ done.value = analyzeTry(Responds(<<body>>)).value

\* Empty or white space only.
Blank(t) == t \in {"", " "}

\* C32: a blank input starts nothing.  In START with a blank topic no step
\* leaves START, starts or ends a gateway call, or changes a field other
\* than the topic being typed and the error being dismissed; with a blank
\* additionalInput no step starts the analyzeDecision call of a
\* refinement.
C32_BlankStartsNothing ==
  [][/\ (stage = "START" /\ Blank(topic))
        => /\ stage' = "START"
           /\ calls' = calls /\ done'.op = "none"
           /\ UNCHANGED <<questions, answers, currentIndex, analysis,
                          additionalInput, isRefining>>
     /\ Blank(additionalInput)
        => /\ ~IssuesOne("analyzeDecision", "refine")
           /\ ~FailedAtOnce("analyzeDecision", "refine")]_vars

\* C32 witness: the result view with white space typed as the additional
\* input, and no call under way.
C32_Witness ==
  /\ stage = "RESULT" /\ analysis # JNull /\ ~isRefining
  /\ additionalInput = " " /\ calls = <<>>

\* C33: callWithRetry stops at the first attempt that succeeds: the step
\* in which attempt i + 1 of a call succeeds, after i failures and i
\* waits, ends the call with the result of that attempt and with exactly
\* i + 1 attempts made; the call is outstanding no more.
C33_StopsAtFirstSuccess ==
  [][(done'.op # "none" /\ done'.ok)
       => /\ Len(calls') = Len(calls) - 1
          /\ \E k \in 1..Len(calls) :
               /\ calls[k].pc = "fn" /\ calls[k].op = done'.op
               /\ done'.attempts = calls[k].i + 1
               /\ done'.waits = calls[k].waits
               /\ Len(done'.waits) = calls[k].i
               /\ done'.value
                    = GatewayFn(done'.op, Responds(done'.text)).value]_vars

\* C33 witness: the third attempt of generateQuestions succeeded after two
\* failures and two waits.
C33_Witness ==
  /\ done.op = "generateQuestions" /\ done.ok
  /\ done.attempts = 3 /\ Len(done.waits) = 2
  /\ calls = <<>>

C35_ResultHasAnalysis == stage = "RESULT" => analysis # JNull

\* C36 (as claimed): with no gateway call outstanding the user has an
\* action that changes the session, in every stage, with or without an
\* error attached and whatever question list the gateway returned.
C36_NoDeadEnd ==
  calls = <<>> => ENABLED (Next /\ sessionVars' # sessionVars)

====
